---- MODULE Spec2Model ----
(***************************************************************************)
(* Layout-flow engine of the Markdown-to-PDF report generator.             *)
(*                                                                         *)
(* Two variants of pdf.Writer exist in the repository:                     *)
(*   "position"  src/internal/pdf/writer.go  (thresholdY / minSpaceNeeded) *)
(*   "space"     src/report.md, package pdf  (minSpaceNeeded first)        *)
(* Both draw through gofpdf (unit mm, A4 portrait, margins 20/30/20).      *)
(*                                                                         *)
(* Lengths are integers, U of them to the millimetre, so that the page     *)
(* height 841.89pt = 297.0001mm and gofpdf's page-break trigger            *)
(* (841.89pt - 2*28.35pt) = 276.9976mm keep their place relative to the    *)
(* whole-millimetre positions the cursor takes.  A comparison with a       *)
(* fraction of the page height, y > pageHeight * 0.40, is written          *)
(* 100 * y > 40 * PageHeight.                                              *)
(***************************************************************************)
EXTENDS Integers, Sequences, FiniteSets, TLC

\* ---------------------------------------------------------------- bounds
MaxPage == 2        \* emits are explored on pages 1..MaxPage
MaxCursor == 290    \* largest cursor position explored, in mm
MaxLines == 3       \* lines of a paragraph or list item
MaxCodeLines == 5   \* lines of a code block
MaxLevel == 4       \* heading levels 1..MaxLevel (4 and above share a policy)
MaxTokens == 1      \* tokens of a highlighted code block
MaxItems == 3       \* children of a List node
MaxStart == 9       \* start number of an ordered list
MaxIndex == 11      \* index handed to WriteListItem
MaxBlockTokens == 3 \* tokens of a highlighted code block followed token by token
MaxDay == 4         \* days on which a report is written or saved
MaxBlocks == 2      \* top-level blocks of a document
MaxKids == 2        \* children of a List node in a document

\* ------------------------------------------------------ drawing surface
U == 10000
PageHeight == 2970001
PageBreakTrigger == 2769976
TopMargin == 30 * U
MarginBottom == 20 * U

Variants == {"position", "space"}
Levels == 1..MaxLevel
\* Number of lines a text takes once wrapped; 0 stands for the empty text.
LineCounts == {0, 1, MaxLines}
CodeLineCounts == {0, 1, MaxCodeLines}
HeadingTexts == {"", "h"}
\* WriteHeading's arguments: a text at every level, and the empty text, which
\* returns before the level is looked at.
HeadingInputs == (Levels \X {"h"}) \cup {<<1, "">>}

\* variant           which Writer is running (fixed for a run)
\* pdf               the gofpdf cursor: [y, page]
\* lastHeadingLevel, lastLevel2Y, lastLevel2Page   the Writer's fields
\* op                the last emit that drew something: a "heading" or other
\*                   "content", whether the emitter itself called AddPage
\*                   before drawing, and whether it began with the cursor at
\*                   position-fraction 0.85 of the page
\* call              the last WriteListItem call that drew: its marker, its
\*                   index and the prefix it put before the text
\* list              the renderer's walk over a List node: the node's marker,
\*                   its items (each by its number of lines, 0 for an item
\*                   without text), the next child, itemIndex, and the
\*                   prefixes drawn for the node so far
\* block             the last highlighted code block that drew: its tokens
\*                   and the cursor at which the first was drawn
\* meta              the Writer's author, date and project fields and the
\*                   document information written by Save
\* walk              RenderToPDF's walk over a document: the document, the
\*                   nodes still to visit in document order, and the
\*                   emitters called so far
VARIABLES variant, pdf, lastHeadingLevel, lastLevel2Y, lastLevel2Page, op,
          call, list, block, meta, walk

writer == <<variant, pdf, lastHeadingLevel, lastLevel2Y, lastLevel2Page, op>>
vars == <<writer, call, list, block, meta, walk>>

\* Mutant of AddPage: the cursor is reset, the page is not counted.
AddPageSamePage(p) == [y |-> TopMargin, page |-> p.page]

\* Mutant of AddPage: the cursor is not reset.
AddPageKeepsCursor(p) == [p EXCEPT !.page = @ + 1]

\* w.pdf.AddPage(): next page, cursor at the top margin.
AddPage(p) == [y |-> TopMargin, page |-> p.page + 1]

\* Mutant of Ln: the line feed breaks the page when it does not fit.
LnChecked(p, h) ==
    IF p.y + h > PageBreakTrigger
    THEN [y |-> TopMargin + h, page |-> p.page + 1]
    ELSE [p EXCEPT !.y = @ + h]

\* Mutant of Ln: the line feed does not move the cursor.
LnNowhere(p, h) == p

\* w.pdf.Ln(h): the cursor moves down by h; no page-break test.
Ln(p, h) == [p EXCEPT !.y = @ + h]

\* gofpdf's automatic page break, at the head of every CellFormat.
AutoBreak(p, h) == IF p.y + h > PageBreakTrigger THEN AddPage(p) ELSE p

\* w.pdf.CellFormat(_, h, ..., ln > 0): automatic page break when the cell
\* would pass the trigger, then the cursor moves below the cell.
CellFormat(p, h) == Ln(AutoBreak(p, h), h)

\* w.pdf.MultiCell(0, h, text, ...): one cell per line of the wrapped text.
RECURSIVE MultiCell(_, _, _)
MultiCell(p, h, n) ==
    IF n = 0 THEN p ELSE MultiCell(CellFormat(p, h), h, n - 1)

\* remainingSpace := pageHeight - y - marginBottom
RemainingSpace(y) == PageHeight - y - MarginBottom

\* y > pageHeight * pct/100
Past(y, pct) == 100 * y > pct * PageHeight

\* The part of a run that is explored.
InBounds(p) == pdf.page <= MaxPage /\ p.y <= MaxCursor * U

\* The cursor is at position-fraction 0.85 of the page, to the nearest
\* hundredth.
At85(y) == 100 * y >= 84 * PageHeight /\ 100 * y <= 86 * PageHeight

\* What an emit leaves in op.
Drew(kind, brk) == [kind |-> kind, broke |-> brk, at85 |-> At85(pdf.y)]

\* ------------------------------------------------------- initial state
\* NewWriter: margins 20/30/20, first page added, fields zero.
InitWriter ==
    /\ pdf = [y |-> TopMargin, page |-> 1]
    /\ lastHeadingLevel = 0
    /\ lastLevel2Y = 0
    /\ lastLevel2Page = 0
    /\ op = [kind |-> "none", broke |-> FALSE, at85 |-> FALSE]

\* ------------------------------------------------------ heading policy
\* writer.go: thresholdY (as a percentage of the page height) and
\* minSpaceNeeded, per heading level.
\* Mutant of Level1Policy: level 3's values copied.
Level1PolicyAsLevel3 == [pct |-> 55, min |-> 70 * U]

Level1Policy == [pct |-> 60, min |-> 90 * U]

\* Mutants of Level2Policy: level 1's values copied; a minimum space of
\* 220 for 120; thresholds laxer than every other level's.
Level2PolicyAsLevel1 == [pct |-> 60, min |-> 90 * U]

Level2PolicyGreedy == [pct |-> 40, min |-> 220 * U]

Level2PolicyLax == [pct |-> 70, min |-> 40 * U]

Level2Policy == [pct |-> 40, min |-> 120 * U]

\* Mutant of Level3Policy: the deeper levels' values copied.
Level3PolicyAsDeep == [pct |-> 60, min |-> 50 * U]

Level3Policy == [pct |-> 55, min |-> 70 * U]

DeepPolicy == [pct |-> 60, min |-> 50 * U]

\* The two escalations of a level-3 heading; thresholdY = 0.0 (pct 0) is the
\* "break immediately" marker.
ParentVeryLowPolicy == [pct |-> 0, min |-> 80 * U]

ParentLowPolicy == [pct |-> 30, min |-> 85 * U]

\* Mutant of ParentHere: the page comparison forgotten.
ParentHereAnyPage(l2y, l2page, page) == l2y > 0

\* "w.lastLevel2Page == currentPage && w.lastLevel2Y > 0"
ParentHere(l2y, l2page, page) == l2page = page /\ l2y > 0

\* Mutant of NeedsBreak: the escalation entered from 30% of the page height.
NeedsBreakEarly(y) ==
    Past(y, 30) \/ RemainingSpace(y) < Level3Policy.min

\* Mutant of NeedsBreak: the escalation applied without the space test.
NeedsBreakAlways(y) == TRUE

\* "needsBreak := y > thresholdY || remainingSpace < minSpaceNeeded", with
\* the level-3 values just assigned.
NeedsBreak(y) ==
    Past(y, Level3Policy.pct) \/ RemainingSpace(y) < Level3Policy.min

\* writer.go: the thresholds a heading ends up with.
HeadingThresholds(level, y, l2y, l2page, page) ==
    IF level = 2 THEN Level2Policy
    ELSE IF level = 3 THEN
        IF ParentHere(l2y, l2page, page) /\ NeedsBreak(y) /\ Past(l2y, 40)
            THEN ParentVeryLowPolicy
        ELSE IF ParentHere(l2y, l2page, page) /\ NeedsBreak(y) /\ Past(l2y, 30)
            THEN ParentLowPolicy
        ELSE Level3Policy
    ELSE IF level = 1 THEN Level1Policy
    ELSE DeepPolicy

\* Mutant of ShouldBreakPosition: the immediate-break flag inverted.
ShouldBreakPositionInverted(level, y, l2y, l2page, page) ==
    LET t == HeadingThresholds(level, y, l2y, l2page, page)
    IN  IF t.pct = 0 THEN FALSE
        ELSE Past(y, t.pct) \/ RemainingSpace(y) < t.min

\* writer.go: shouldBreak, computed inside "if y > 40".
ShouldBreakPosition(level, y, l2y, l2page, page) ==
    LET t == HeadingThresholds(level, y, l2y, l2page, page)
    IN  IF t.pct = 0 THEN TRUE
        ELSE Past(y, t.pct) \/ RemainingSpace(y) < t.min

\* Mutant of MinSpaceNeeded: 150 at every level.
MinSpaceNeededGenerous(level) == 150 * U

\* report.md: minSpaceNeeded per level.
MinSpaceNeeded(level) ==
    IF level = 2 THEN 100 * U
    ELSE IF level = 3 THEN 60 * U
    ELSE IF level = 1 THEN 80 * U
    ELSE 40 * U

\* report.md: shouldBreak, computed before "if y > 40".
ShouldBreakSpace(level, y, l2y, l2page, page) ==
    LET rem == RemainingSpace(y)
        min == MinSpaceNeeded(level)
        tight == 10 * rem < 12 * min            \* remainingSpace < min*1.2
    IN  IF level = 3 THEN
            IF ParentHere(l2y, l2page, page) THEN
                IF rem < min THEN
                    IF Past(l2y, 50) THEN TRUE
                    ELSE IF Past(l2y, 40) /\ tight THEN TRUE
                    ELSE rem < min
                ELSE FALSE
            ELSE rem < min
        ELSE (rem < min) \/ (level = 2 /\ tight /\ Past(y, 65))

ShouldBreak(v, level, y, l2y, l2page, page) ==
    IF v = "position" THEN ShouldBreakPosition(level, y, l2y, l2page, page)
    ELSE ShouldBreakSpace(level, y, l2y, l2page, page)

\* "if y > 40 { if shouldBreak { AddPage } else { Ln(4) } }"
HeadingBreaks(v, level, y, l2y, l2page, page) ==
    y > 40 * U /\ ShouldBreak(v, level, y, l2y, l2page, page)

\* ------------------------------------------------------------ emitters
\* The heading decision in the current state.
BreaksNow(level) ==
    HeadingBreaks(variant, level, pdf.y, lastLevel2Y, lastLevel2Page, pdf.page)

\* Mutant of HeadingPlace: no gap before a heading that does not break.
HeadingPlaceNoGap(level) ==
    IF pdf.y > 40 * U /\ BreaksNow(level) THEN AddPage(pdf) ELSE pdf

\* The cursor after WriteHeading's break-or-gap step, where the level-2
\* position is recorded and the heading cell is drawn.
HeadingPlace(level) ==
    IF pdf.y > 40 * U
    THEN (IF BreaksNow(level) THEN AddPage(pdf) ELSE Ln(pdf, 4 * U))
    ELSE pdf

\* Mutant of Level2Position: the position recorded after the heading cell.
Level2PositionAfterCell(level, p) ==
    IF level = 2 THEN <<p.y + 12 * U, p.page>>
    ELSE <<lastLevel2Y, lastLevel2Page>>

\* Mutant of Level2Position: the position recorded for every level.
Level2PositionAnyLevel(level, p) == <<p.y, p.page>>

\* "if level == 2 { w.lastLevel2Y = y; w.lastLevel2Page = w.pdf.PageNo() }"
Level2Position(level, p) ==
    IF level = 2 THEN <<p.y, p.page>> ELSE <<lastLevel2Y, lastLevel2Page>>

WriteHeading(level, text) ==
    IF text = "" THEN UNCHANGED writer
    ELSE
    LET brk == BreaksNow(level)
        p1  == HeadingPlace(level)
        p3  == Ln(CellFormat(p1, 12 * U), 3 * U)
    IN  /\ InBounds(p3)
        /\ pdf' = p3
        /\ lastLevel2Y' = Level2Position(level, p1)[1]
        /\ lastLevel2Page' = Level2Position(level, p1)[2]
        /\ lastHeadingLevel' = level
        /\ op' = Drew("heading", brk)
        /\ UNCHANGED variant

\* Mutant of NoText: no text counts as empty.
NoTextNever(lines) == FALSE

\* "if text == "" { return }" of WriteParagraph, WriteCode and
\* WriteListItem, the text given by its number of lines.
NoText(lines) == lines = 0

\* Mutant of ParagraphBreaks: a page for every paragraph.
ParagraphBreaksAlways(lhl, y) == TRUE

\* Mutant of ParagraphBreaks: the space test alone.
ParagraphBreaksSpaceOnly(lhl, y) == RemainingSpace(y) < 24 * U

\* WriteParagraph's page-break test.
ParagraphBreaks(lhl, y) ==
    IF lhl > 0 THEN Past(y, 65) \/ RemainingSpace(y) < 24 * U + 20 * U
    ELSE RemainingSpace(y) < 24 * U

\* The cursor after WriteParagraph's page-break step.
ParagraphPlace ==
    IF ParagraphBreaks(lastHeadingLevel, pdf.y) THEN AddPage(pdf) ELSE pdf

WriteParagraph(lines) ==
    IF NoText(lines) THEN UNCHANGED writer
    ELSE
    LET brk == ParagraphBreaks(lastHeadingLevel, pdf.y)
        p1  == ParagraphPlace
        p3  == Ln(MultiCell(p1, 6 * U, lines), 4 * U)
    IN  /\ InBounds(p3)
        /\ pdf' = p3
        /\ lastHeadingLevel' = 0
        /\ op' = Drew("content", brk)
        /\ UNCHANGED <<variant, lastLevel2Y, lastLevel2Page>>

\* Mutant of CodeBreaks: the heading-following position test added.
CodeBreaksAfterHeading(y) ==
    RemainingSpace(y) < 20 * U \/ (lastHeadingLevel > 0 /\ Past(y, 65))

\* WriteCode's and WriteHighlightedCode's page-break test.
CodeBreaks(y) == RemainingSpace(y) < 20 * U

WriteCode(lines) ==
    IF NoText(lines) THEN UNCHANGED writer
    ELSE
    LET brk == CodeBreaks(pdf.y)
        p1  == IF brk THEN AddPage(pdf) ELSE pdf
        p3  == Ln(MultiCell(p1, 6 * U, lines), 3 * U)
    IN  /\ InBounds(p3)
        /\ pdf' = p3
        /\ op' = Drew("content", brk)
        /\ UNCHANGED <<variant, lastHeadingLevel, lastLevel2Y, lastLevel2Page>>

WriteThematicBreak ==
    LET p2 == Ln(Ln(pdf, 6 * U), 6 * U)
    IN  /\ InBounds(p2)
        /\ pdf' = p2
        /\ op' = Drew("content", FALSE)
        /\ UNCHANGED <<variant, lastHeadingLevel, lastLevel2Y, lastLevel2Page>>

\* WriteListItem's page-break test.
ListItemBreaks(lhl, y) ==
    IF lhl > 0 /\ (Past(y, 70) \/ RemainingSpace(y) < 10 * U) THEN TRUE
    ELSE RemainingSpace(y) < 10 * U

\* The cursor after WriteListItem's page-break step.
ListItemPlace ==
    IF ListItemBreaks(lastHeadingLevel, pdf.y) THEN AddPage(pdf) ELSE pdf

WriteListItem(lines) ==
    IF NoText(lines) THEN UNCHANGED writer
    ELSE
    LET brk == ListItemBreaks(lastHeadingLevel, pdf.y)
        p1  == ListItemPlace
        p3  == Ln(MultiCell(p1, 6 * U, lines), 2 * U)
    IN  /\ InBounds(p3)
        /\ pdf' = p3
        /\ lastHeadingLevel' = 0
        /\ op' = Drew("content", brk)
        /\ UNCHANGED <<variant, lastLevel2Y, lastLevel2Page>>

\* ------------------------------------- emitters of report.md's Writer
\* A chroma token as the renderer sees it:
\*   "newline"  its value is "\n"                       -> Ln(6)
\*   "text"     fits on the current line                -> Write: last chunk
\*   "moved"    does not fit, starts the next line      -> Write: y += h, chunk
\*   "broken"   holds a line break or is cut at a space -> Write: cell, chunk
TokenKinds == {"newline", "text", "moved", "broken"}
TokenSeqs == UNION {[1..n -> TokenKinds] : n \in 1..MaxTokens}

\* Mutant of RenderToken: every token handed to Write as a text that fits.
RenderTokenAllWritten(p, tok) == AutoBreak(p, 6 * U)

\* w.pdf.Write(6, value) and w.pdf.Ln(6) for one token.
RenderToken(p, tok) ==
    IF tok = "newline" THEN Ln(p, 6 * U)
    ELSE IF tok = "text" THEN AutoBreak(p, 6 * U)
    ELSE IF tok = "moved" THEN AutoBreak(Ln(p, 6 * U), 6 * U)
    ELSE AutoBreak(CellFormat(p, 6 * U), 6 * U)

\* renderSyntaxHighlightedCode: the tokens in order until EOF.
RECURSIVE RenderTokens(_, _, _)
RenderTokens(p, toks, i) ==
    IF i > Len(toks) THEN p
    ELSE RenderTokens(RenderToken(p, toks[i]), toks, i + 1)

\* How a text handed to w.pdf.Write lies on the page; "" is the empty text.
TextKinds == {"", "text", "moved", "broken"}

\* WriteText (both Writers): w.pdf.Write(6, text) at the cursor; no
\* page-break test of its own, no line feed, lastHeadingLevel untouched.
WriteText(kind) ==
    IF kind = "" THEN UNCHANGED writer
    ELSE
    LET p1 == RenderToken(pdf, kind)
    IN  /\ InBounds(p1)
        /\ pdf' = p1
        /\ op' = Drew("content", FALSE)
        /\ UNCHANGED <<variant, lastHeadingLevel, lastLevel2Y, lastLevel2Page>>

WriteHighlightedCode(toks) ==
    IF Len(toks) = 0 THEN UNCHANGED writer
    ELSE
    LET brk == CodeBreaks(pdf.y)
        p1  == IF brk THEN AddPage(pdf) ELSE pdf
        p2  == RenderTokens(p1, toks, 1)
    IN  /\ variant = "space"
        /\ InBounds(p2)
        /\ pdf' = p2
        /\ op' = Drew("content", brk)
        /\ UNCHANGED <<variant, lastHeadingLevel, lastLevel2Y, lastLevel2Page>>

\* WriteHighlightedCode(code, language): the layout of
\* WriteHighlightedCode(toks), with the tokens chroma cut the code into and
\* the cursor renderSyntaxHighlightedCode started from.
NoBlock == [toks |-> <<>>, from |-> [y |-> 0, page |-> 0]]
BlockTokenSeqs == UNION {[1..n -> TokenKinds] : n \in 1..MaxBlockTokens}

HighlightCode(toks) ==
    /\ WriteHighlightedCode(toks)
    /\ block' = IF Len(toks) = 0 THEN block
                ELSE [toks |-> toks,
                      from |-> IF CodeBreaks(pdf.y) THEN AddPage(pdf) ELSE pdf]

\* WriteInlineCode draws at the cursor and moves x only.
WriteInlineCode(text) ==
    IF text = "" THEN UNCHANGED writer
    ELSE /\ variant = "space"
         /\ InBounds(pdf)
         /\ op' = Drew("content", FALSE)
         /\ UNCHANGED <<variant, pdf, lastHeadingLevel, lastLevel2Y,
                        lastLevel2Page>>

\* ------------------------------------------------------- PDF metadata
\* The values main extracts for __author__ and __project__ ("" when the
\* variable is missing), and for __date__: the day the text names, 0 when
\* the variable is missing.
Authors == {"", "Julian R.", "Your Name Here"}
Projects == {"", "Network Infrastructure", "Novelized Platform"}
Days == 1..MaxDay
Dates == {0} \cup Days

\* gofpdf's document information before any setter is called; the creation
\* date 0 is the zero time.
NoInfo == [saved |-> FALSE, author |-> "", title |-> "", subject |-> <<>>,
           creationDate |-> 0]
NoMeta == [author |-> "", date |-> 0, project |-> "", info |-> NoInfo]

\* w.SetMetadata(author, date, project)
SetMetadata(author, date, project) ==
    /\ ~meta.info.saved
    /\ meta' = [meta EXCEPT !.author = author, !.date = date,
                            !.project = project]
    /\ UNCHANGED <<writer, call, list, block, walk>>

\* Save: SetAuthor, SetCreationDate(time.Now()), SetTitle and
\* SetSubject("Project: " + project), each under its test for a non-empty
\* field; OutputFileAndClose then writes the creation date, the time of the
\* call when none was set.
SavedInfo(m, now) ==
    [saved |-> TRUE,
     author |-> IF m.author # "" THEN m.author ELSE "",
     title |-> IF m.project # "" THEN m.project ELSE "",
     subject |-> IF m.project # "" THEN <<"Project: ", m.project>> ELSE <<>>,
     creationDate |-> IF m.date # 0 THEN now ELSE now]

\* w.Save(path) on day now
Save(now) ==
    /\ ~meta.info.saved
    /\ meta' = [meta EXCEPT !.info = SavedInfo(meta, now)]
    /\ UNCHANGED <<writer, call, list, block, walk>>

\* ------------------------------------------------- list item prefixes
\* A prefix is the sequence of its characters; "bullet" is the glyph U+2022.
Bullet == <<"bullet", " ">>
DigitChars == <<"0", "1", "2", "3", "4", "5", "6", "7", "8", "9">>

\* fmt.Sprintf("%d", n) for n >= 0
RECURSIVE Decimal(_)
Decimal(n) ==
    IF n < 10 THEN <<DigitChars[n + 1]>>
    ELSE Decimal(n \div 10) \o <<DigitChars[(n % 10) + 1]>>

\* Mutant of Prefix: the index of an ordered marker printed whatever it is.
PrefixAnyIndex(marker, index) ==
    IF marker \in {"-", "+", "*"} THEN Bullet
    ELSE IF marker \in {".", ")"}
         THEN Decimal(IF index < 0 THEN 0 ELSE index) \o <<".", " ">>
    ELSE Bullet

\* WriteListItem: "Determine bullet/number prefix"
Prefix(marker, index) ==
    IF marker \in {"-", "+", "*"} THEN Bullet
    ELSE IF marker \in {".", ")"}
         THEN (IF index > 0 THEN Decimal(index) \o <<".", " ">> ELSE Bullet)
    ELSE Bullet

\* WriteListItem(text, marker, index): the layout of WriteListItem(lines)
\* and the prefix drawn before the text.
DrawListItem(lines, marker, index) ==
    /\ WriteListItem(lines)
    /\ call' = IF lines = 0 THEN call
               ELSE [marker |-> marker, index |-> index,
                     prefix |-> Prefix(marker, index)]

\* ------------------------------------------------ the renderer's lists
NoCall == [marker |-> "", index |-> 0, prefix |-> <<>>]
NoList == [marker |-> "", start |-> 0, items |-> <<>>, pos |-> 1,
           itemIndex |-> 0, prefixes |-> <<>>]

NoWalk == [doc |-> <<>>, todo |-> <<>>, calls |-> <<>>]

InitWalk ==
    /\ call = NoCall /\ list = NoList /\ block = NoBlock /\ meta = NoMeta
    /\ walk = NoWalk

\* goldmark's ast.List: markers of bullet and of ordered lists
ListMarkers == {"-", "+", "*", ".", ")"}
\* any marker byte; "x" stands for the bytes that mark no list
MarkerBytes == ListMarkers \cup {"x"}
\* ast.List.IsOrdered
IsOrdered(marker) == marker \in {".", ")"}

Starts == 0..MaxStart
Indexes == (0 - 1)..MaxIndex
ItemSeqs == UNION {[1..n -> {0, 1}] : n \in 1..MaxItems}

\* Mutant of WalkList: an ordered list counts from 1 at least.
WalkListFromOne(marker, start, items) ==
    /\ list = NoList
    /\ op.kind = "none"
    /\ list' = [marker |-> marker, start |-> start, items |-> items,
                pos |-> 1,
                itemIndex |-> IF IsOrdered(marker)
                              THEN (IF start = 0 THEN 1 ELSE start) ELSE 0,
                prefixes |-> <<>>]
    /\ UNCHANGED <<writer, call>>

\* walk reaches a List node, the first block of the document:
\* itemIndex := 0, or node.Start if ordered.
WalkList(marker, start, items) ==
    /\ list = NoList
    /\ op.kind = "none"
    /\ list' = [marker |-> marker, start |-> start, items |-> items,
                pos |-> 1, itemIndex |-> IF IsOrdered(marker) THEN start ELSE 0,
                prefixes |-> <<>>]
    /\ UNCHANGED <<writer, call>>

\* Mutant of NextItemIndex: every child of an ordered list takes a number.
NextItemIndexEveryItem(marker, itemIndex, lines) ==
    IF IsOrdered(marker) THEN itemIndex + 1 ELSE itemIndex

\* "if itemText != "" { ...; if node.IsOrdered() { itemIndex++ } }"
NextItemIndex(marker, itemIndex, lines) ==
    IF lines # 0 /\ IsOrdered(marker) THEN itemIndex + 1 ELSE itemIndex

\* One turn of the loop over the node's children.
WalkListItem ==
    /\ list.pos <= Len(list.items)
    /\ LET lines == list.items[list.pos]
       IN  /\ IF lines = 0 THEN UNCHANGED <<writer, call>>
              ELSE DrawListItem(lines, list.marker, list.itemIndex)
           /\ list' = [list EXCEPT
                  !.pos = @ + 1,
                  !.itemIndex = NextItemIndex(list.marker, @, lines),
                  !.prefixes = IF lines = 0 THEN @
                               ELSE Append(@, Prefix(list.marker,
                                                     list.itemIndex))]

\* walk reaches a ListItem outside a List: WriteListItem(itemText, '-', 0).
WalkStandaloneItem(lines) ==
    /\ list = NoList
    /\ IF lines = 0 THEN UNCHANGED <<writer, call>>
       ELSE DrawListItem(lines, "-", 0)
    /\ UNCHANGED list

\* WriteListItem called with any marker byte and index.
CallWriteListItem(lines, marker, index) ==
    /\ list = NoList
    /\ DrawListItem(lines, marker, index)
    /\ UNCHANGED list

\* ------------------------------------------- the renderer's tree walk
\* A goldmark block node: its kind, the lines of text extractText (or
\* Lines(), for a code block) finds in it, 0 for none, and its child
\* blocks.  An indented code block is an *ast.CodeBlock, a fenced one an
\* *ast.FencedCodeBlock; neither has child nodes.
Node(kind, text, kids) == [kind |-> kind, text |-> text, kids |-> kids]

Leaves ==
    {Node(kind, text, <<>>) :
         kind \in {"Heading", "Paragraph", "CodeBlock", "FencedCodeBlock"},
         text \in {0, 1}}
    \cup {Node("ThematicBreak", 0, <<>>)}
ListItemNodes == {Node("ListItem", text, <<>>) : text \in {0, 1}}
ListNodes ==
    {Node("List", 0, kids) :
         kids \in UNION {[1..n -> ListItemNodes] : n \in 1..MaxKids}}
BlockquoteNodes ==
    {Node("Blockquote", 0, <<leaf>>) :
         leaf \in {l \in Leaves : l.text # 0 \/ l.kind = "ThematicBreak"}}
Blocks == Leaves \cup ListItemNodes \cup ListNodes \cup BlockquoteNodes
Documents == UNION {[1..n -> Blocks] : n \in 1..MaxBlocks}

\* The children of a List node as the loop over them sees them.
ListChildren(kids) ==
    [k \in DOMAIN kids |-> Node("ListChild", kids[k].text, <<>>)]

\* RenderToPDF(doc, p, src) on a new Writer: walk(doc, ...) is entered.
RenderToPDF(doc) ==
    /\ walk = NoWalk
    /\ op.kind = "none"
    /\ walk' = [doc |-> doc, todo |-> doc, calls |-> <<>>]
    /\ UNCHANGED <<writer, call, list, block, meta>>

\* walk: the next node in document order goes through the type switch. A
\* handled node calls its emitter if it has text and is not entered; a List
\* node hands each child that is a ListItem to WriteListItem; any other
\* node is entered, its children visited next.
WalkNode ==
    /\ walk.todo # <<>>
    /\ LET node == Head(walk.todo)
           rest == Tail(walk.todo)
           Called(name) == [walk EXCEPT !.todo = rest,
                                        !.calls = Append(@, name)]
           Skipped == [walk EXCEPT !.todo = rest]
           Entered(kids) == [walk EXCEPT !.todo = kids \o rest]
       IN  /\ UNCHANGED <<list, block, meta>>
           /\ CASE node.kind = "Heading" /\ node.text # 0 ->
                      /\ WriteHeading(2, "h")
                      /\ walk' = Called("WriteHeading")
                      /\ UNCHANGED call
                [] node.kind = "Paragraph" /\ node.text # 0 ->
                      /\ WriteParagraph(node.text)
                      /\ walk' = Called("WriteParagraph")
                      /\ UNCHANGED call
                [] node.kind = "CodeBlock" /\ node.text # 0 ->
                      /\ WriteCode(node.text)
                      /\ walk' = Called("WriteCode")
                      /\ UNCHANGED call
                [] node.kind = "ThematicBreak" ->
                      /\ WriteThematicBreak
                      /\ walk' = Called("WriteThematicBreak")
                      /\ UNCHANGED call
                [] node.kind \in {"ListItem", "ListChild"} /\ node.text # 0 ->
                      /\ DrawListItem(node.text, "-", 0)
                      /\ walk' = Called("WriteListItem")
                [] node.kind \in {"Heading", "Paragraph", "CodeBlock",
                                  "ListItem", "ListChild"}
                       /\ node.text = 0 ->
                      /\ walk' = Skipped
                      /\ UNCHANGED <<writer, call>>
                [] node.kind = "List" ->
                      /\ walk' = Entered(ListChildren(node.kids))
                      /\ UNCHANGED <<writer, call>>
                [] OTHER ->
                      /\ walk' = Entered(node.kids)
                      /\ UNCHANGED <<writer, call>>

\* ------------------------------------------------------ specifications
Emit ==
    \/ \E arg \in HeadingInputs : WriteHeading(arg[1], arg[2])
    \/ \E lines \in LineCounts : WriteParagraph(lines)
    \/ \E lines \in CodeLineCounts : WriteCode(lines)
    \/ WriteThematicBreak
    \/ \E lines \in LineCounts : WriteListItem(lines)

\* The inline emitter both Writers have.
EmitText == \E kind \in TextKinds : WriteText(kind)

EmitSpace ==
    \/ \E toks \in TokenSeqs \cup {<<>>} : WriteHighlightedCode(toks)
    \/ \E text \in HeadingTexts : WriteInlineCode(text)

\* src/internal/pdf/writer.go
Init == variant = "position" /\ InitWriter /\ InitWalk
Next == (Emit \/ EmitText) /\ UNCHANGED <<call, list, block, meta, walk>>
Spec == Init /\ [][Next]_vars

\* src/report.md, package pdf: the block emitters and the two emitters only
\* this Writer has
InitSpace == variant = "space" /\ InitWriter /\ InitWalk
NextSpace == (Emit \/ EmitSpace) /\ UNCHANGED <<call, list, block, meta, walk>>
SpecSpace == InitSpace /\ [][NextSpace]_vars

\* src/internal/markdown/renderer.go: lists, and WriteListItem on its own
InitList == variant = "position" /\ InitWriter /\ InitWalk
NextList ==
    /\ UNCHANGED <<block, meta, walk>>
    /\ \/ \E marker \in ListMarkers, start \in Starts, items \in ItemSeqs :
              WalkList(marker, start, items)
       \/ WalkListItem
       \/ \E lines \in {0, 1} : WalkStandaloneItem(lines)
       \/ \E lines \in {0, 1}, marker \in MarkerBytes, index \in Indexes :
              CallWriteListItem(lines, marker, index)
SpecList == InitList /\ [][NextList]_vars

\* src/report.md, package pdf: highlighted code blocks token by token, among
\* thematic breaks
InitTokens == variant = "space" /\ InitWriter /\ InitWalk
NextTokens ==
    /\ UNCHANGED <<call, list, meta, walk>>
    /\ \/ \E toks \in BlockTokenSeqs \cup {<<>>} : HighlightCode(toks)
       \/ WriteThematicBreak /\ UNCHANGED block
SpecTokens == InitTokens /\ [][NextTokens]_vars

\* src/cmd/app/main.go with report.md's Writer: the metadata from
\* extraction to Save
InitMeta == variant = "space" /\ InitWriter /\ InitWalk
NextMeta ==
    \/ \E author \in Authors, date \in Dates, project \in Projects :
           SetMetadata(author, date, project)
    \/ \E now \in Days : Save(now)
SpecMeta == InitMeta /\ [][NextMeta]_vars

\* src/internal/markdown/renderer.go: RenderToPDF over a document
InitRender == variant = "position" /\ InitWriter /\ InitWalk
NextRender ==
    \/ \E doc \in Documents : RenderToPDF(doc)
    \/ WalkNode
SpecRender == InitRender /\ [][NextRender]_vars

\* either Writer, driven by the five block emitters the two have in common
InitBoth == variant \in Variants /\ InitWriter /\ InitWalk
NextBoth == Emit /\ UNCHANGED <<call, list, block, meta, walk>>
SpecBoth == InitBoth /\ [][NextBoth]_vars

\* ============================================================== claims
\* Level-3 normal thresholds, as the claims state them.
Normal3Position == Past(pdf.y, 55) \/ RemainingSpace(pdf.y) < 70 * U
Normal3Space == RemainingSpace(pdf.y) < 60 * U
Normal3 == IF variant = "position" THEN Normal3Position ELSE Normal3Space

\* The recorded level-2 heading is on the current page.
Level2OnThisPage == lastLevel2Page = pdf.page /\ lastLevel2Y > 0

\* C1: after every emit the cursor Y lies within [30, 277].
C1_CursorWithinMargins ==
    op.kind # "none" => pdf.y >= 30 * U /\ pdf.y <= 277 * U

\* C2: a paragraph or list item emitted immediately after a heading starts
\* on the page on which that heading was drawn.
C2_ContentStaysWithHeading ==
    op.kind = "heading" =>
        /\ AutoBreak(ParagraphPlace, 6 * U).page = pdf.page
        /\ AutoBreak(ListItemPlace, 6 * U).page = pdf.page

\* C3: a level-3 heading emitted immediately after a level-2 heading is
\* drawn on the page of that level-2 heading, in both variants.
C3_Level3StaysWithLevel2 ==
    (op.kind = "heading" /\ lastHeadingLevel = 2) =>
        /\ ~BreaksNow(3)
        /\ AutoBreak(HeadingPlace(3), 12 * U).page = pdf.page

\* C3 witness: a level-2 heading broke onto page 2 and a level-3 heading
\* was then drawn directly below it.
C3_Witness ==
    /\ op.kind = "heading" /\ lastHeadingLevel = 3 /\ ~op.broke
    /\ pdf.page = 2 /\ lastLevel2Page = 2 /\ lastLevel2Y = TopMargin
    /\ pdf.y = TopMargin + 15 * U + 19 * U

\* C4: after a non-heading block has been emitted, lastHeadingLevel is 0.
C4_ContentClearsHeadingLevel ==
    op.kind = "content" => lastHeadingLevel = 0

\* C5 (P3): a level-2 heading recorded on this page past 40% of the page
\* height and a level-3 heading short of space: the level-3 heading breaks.
C5_EscalationBreaks ==
    (Level2OnThisPage /\ Past(lastLevel2Y, 40) /\ Normal3Position)
        => BreaksNow(3)

\* C5 witness: a level-3 heading broke away from a level-2 heading recorded
\* past 40% on the page it was emitted on.
C5_Witness ==
    /\ op.kind = "heading" /\ lastHeadingLevel = 3 /\ op.broke
    /\ lastLevel2Page = pdf.page - 1 /\ Past(lastLevel2Y, 40)

\* C6 as stated: a level-2 heading recorded on this page past 40% forces a
\* break before a level-3 heading.
C6_AlwaysEscalates ==
    (Level2OnThisPage /\ Past(lastLevel2Y, 40)) => BreaksNow(3)

\* C6 amended: with a level-2 heading recorded on this page past 40%, a
\* level-3 heading breaks exactly when its own thresholds (cursor past 55%
\* or less than 70 left) demand it.
C6_EscalatesOnlyWhenShort ==
    (Level2OnThisPage /\ Past(lastLevel2Y, 40))
        => (BreaksNow(3) <=> Normal3Position)

\* C6 witness: a level-3 heading was drawn without a break on the page of a
\* level-2 heading recorded past 40%.
C6_Witness ==
    /\ op.kind = "heading" /\ lastHeadingLevel = 3 /\ ~op.broke
    /\ lastLevel2Page = pdf.page /\ Past(lastLevel2Y, 40)

\* C7 (P4): with the level-2 heading recorded on this page above 30%, a
\* level-3 heading breaks exactly on its normal thresholds.
C7_NoEscalationHighParent ==
    (Level2OnThisPage /\ 100 * lastLevel2Y < 30 * PageHeight)
        => (BreaksNow(3) <=> Normal3)

\* C7 witness: a level-3 heading broke on a page whose level-2 heading was
\* recorded above 30%.
C7_Witness ==
    /\ op.kind = "heading" /\ lastHeadingLevel = 3 /\ op.broke
    /\ lastLevel2Page = pdf.page - 1 /\ lastLevel2Y > 0
    /\ 100 * lastLevel2Y < 30 * PageHeight

\* C8: once the page has advanced past lastLevel2Page the level-3 decision
\* is the normal one and the thresholds are the level-3 ones, whatever the
\* recorded position.
C8_StaleParentIgnored ==
    (lastLevel2Page > 0 /\ lastLevel2Page < pdf.page) =>
        /\ BreaksNow(3) <=> Normal3Position
        /\ HeadingThresholds(3, pdf.y, lastLevel2Y, lastLevel2Page, pdf.page)
               = [pct |-> 55, min |-> 70 * U]

\* C8 witness: a level-3 heading broke on page 2 while the recorded level-2
\* heading, low on page 1, was still held.
C8_Witness ==
    /\ op.kind = "heading" /\ lastHeadingLevel = 3 /\ op.broke
    /\ pdf.page = 3 /\ lastLevel2Page = 1 /\ Past(lastLevel2Y, 40)

\* C9 (P1): a heading of any level emitted within 40 mm of the top margin
\* performs no page break.
C9_NoPrematureBreak ==
    pdf.y <= TopMargin + 40 * U =>
        \A level \in Levels :
            /\ ~BreaksNow(level)
            /\ HeadingPlace(level).page = pdf.page

\* C9 witness: a heading was drawn without a break from exactly 40 mm below
\* the top margin.
C9_Witness ==
    /\ op.kind = "heading" /\ ~op.broke
    /\ pdf.y = TopMargin + 40 * U + 19 * U

\* C10 (P2): wherever a level-1 or level-4+ heading breaks, a level-2
\* heading breaks too.
C10_Level2MostAggressive ==
    \A level \in Levels \ {2, 3} : BreaksNow(level) => BreaksNow(2)

\* C10 witness: a position where only the level-2 heading breaks.
C10_Witness ==
    /\ op.kind # "none"
    /\ BreaksNow(2)
    /\ \A level \in Levels \ {2, 3} : ~BreaksNow(level)

\* C11: the recorded level-2 position (lastLevel2Y, lastLevel2Page) changes
\* only in the emit of a non-empty level-2 heading; page breaks and all
\* other emits leave both fields as they were.
C11_Level2RecordFrame ==
    [][(<<lastLevel2Y, lastLevel2Page>>' # <<lastLevel2Y, lastLevel2Page>>)
           => WriteHeading(2, "h")]_vars

\* C11 witness: a paragraph, code block or list item broke away from the
\* page of the recorded level-2 heading, and the record still names that
\* page.
C11_Witness ==
    /\ op.kind = "content" /\ op.broke
    /\ lastLevel2Y > 0 /\ lastLevel2Page = pdf.page - 1

C13_PlainContentSpaceOnly ==
    op.kind = "content" =>
        /\ ParagraphBreaks(lastHeadingLevel, pdf.y)
               <=> RemainingSpace(pdf.y) < 24 * U
        /\ ListItemBreaks(lastHeadingLevel, pdf.y)
               <=> RemainingSpace(pdf.y) < 10 * U

\* C14 (scenario B, first half): a level-2 heading emitted with the cursor
\* at position-fraction 0.85 breaks exactly once before the heading, is
\* drawn at the top margin of the new page and is recorded there, above 30%
\* of the page height.
C14_ScenarioBLevel2Breaks ==
    [][(At85(pdf.y) /\ WriteHeading(2, "h")) =>
           /\ pdf'.page = pdf.page + 1
           /\ pdf'.y = TopMargin + 12 * U + 3 * U
           /\ lastLevel2Y' = TopMargin
           /\ lastLevel2Page' = pdf.page + 1
           /\ 100 * lastLevel2Y' < 30 * PageHeight]_vars

\* C14 witness: a level-2 heading begun at position-fraction 0.85 broke and
\* is recorded at the top margin of the page it was drawn on.
C14_Witness ==
    /\ op = [kind |-> "heading", broke |-> TRUE, at85 |-> TRUE]
    /\ lastHeadingLevel = 2
    /\ lastLevel2Y = TopMargin /\ lastLevel2Page = pdf.page

DigitValue(c) == CHOOSE d \in 0..9 : DigitChars[d + 1] = c
RECURSIVE DecimalValue(_)
DecimalValue(digits) ==
    IF Len(digits) = 0 THEN 0
    ELSE 10 * DecimalValue(SubSeq(digits, 1, Len(digits) - 1))
         + DigitValue(digits[Len(digits)])

\* prefix reads "<n>. ": the digits of n without a leading zero, a full
\* stop and a space.
IsNumbered(prefix, n) ==
    /\ Len(prefix) >= 3
    /\ prefix[Len(prefix) - 1] = "." /\ prefix[Len(prefix)] = " "
    /\ \A k \in 1..(Len(prefix) - 2) :
           \E d \in 1..10 : DigitChars[d] = prefix[k]
    /\ prefix[1] # "0"
    /\ DecimalValue(SubSeq(prefix, 1, Len(prefix) - 2)) = n

IsBullet(prefix) == prefix = <<"bullet", " ">>

\* C16 (P6 and prefix resolution): for every marker byte and index,
\* WriteListItem draws the bullet prefix for '-', '+', '*' and for any
\* other byte that is not '.' or ')'; for '.' and ')' it draws "<index>. "
\* when index > 0 and the bullet prefix when index <= 0, never "0. ".
C16_PrefixResolution ==
    call # NoCall =>
        IF call.marker \in {".", ")"} /\ call.index > 0
        THEN IsNumbered(call.prefix, call.index)
        ELSE IsBullet(call.prefix)

\* C16 witness: WriteListItem drew an item with marker '.' and an index
\* below 1.
C16_Witness ==
    /\ op.kind = "content"
    /\ call.marker = "." /\ call.index <= 0 /\ IsBullet(call.prefix)

\* C17 (scenario C, generalised): walking an ordered list that starts at
\* s >= 1, the prefixes drawn so far are "s. ", "s+1. ", ... in document
\* order, one for each child with text among those visited; children
\* without text draw nothing and take no number.
C17_OrderedListPrefixes ==
    (IsOrdered(list.marker) /\ list.start >= 1) =>
        LET visited == 1..(list.pos - 1)
            withText == {k \in visited : list.items[k] # 0}
        IN  /\ Len(list.prefixes) = Cardinality(withText)
            /\ \A k \in 1..Len(list.prefixes) :
                   IsNumbered(list.prefixes[k], list.start + k - 1)
            /\ list.itemIndex = list.start + Cardinality(withText)

\* C17 witness: scenario C: three items with marker ')' from 1 drew
\* "1. ", "2. ", "3. ".
C17_Witness ==
    /\ list.marker = ")" /\ list.start = 1 /\ list.items = <<1, 1, 1>>
    /\ list.pos = 4
    /\ list.prefixes = << <<"1", ".", " ">>, <<"2", ".", " ">>,
                          <<"3", ".", " ">> >>

\* C18: an emit with empty text (heading, paragraph, code block,
\* highlighted code block, list item, inline code span) is a no-op: the
\* cursor, the page, lastHeadingLevel and the recorded level-2 position are
\* as before.
C18_EmptyTextIsNoOp ==
    [][(\/ \E level \in Levels : WriteHeading(level, "")
        \/ WriteParagraph(0)
        \/ WriteCode(0)
        \/ WriteHighlightedCode(<<>>)
        \/ WriteListItem(0)
        \/ WriteInlineCode(""))
           => UNCHANGED <<pdf, lastHeadingLevel, lastLevel2Y,
                          lastLevel2Page>>]_vars

\* C18 witness: a state in which every emitter given a text would break the
\* page and the paragraph and list item would clear lastHeadingLevel: fewer
\* than 10 mm left, below a level-2 heading recorded on this page.
C18_Witness ==
    /\ variant = "space"
    /\ lastHeadingLevel = 2 /\ lastLevel2Page = pdf.page
    /\ RemainingSpace(pdf.y) < 10 * U
    /\ op.kind = "content"

\* C19: a thematic break never forces a page break: WriteThematicBreak
\* leaves the page number as it was whatever the cursor position, so any
\* number of consecutive thematic breaks stay on one page.
C19_ThematicBreakKeepsPage ==
    [][pdf'.page # pdf.page => ~WriteThematicBreak]_vars

\* C19 witness: the cursor stands more than 280 mm down page 1, where only
\* a thematic break begun below the bottom margin area can have put it.
C19_Witness ==
    /\ op.kind = "content" /\ ~op.broke
    /\ pdf.page = 1 /\ pdf.y > 280 * U

\* C20: while lastHeadingLevel > 0 a paragraph breaks iff the cursor is
\* past 65% of the page height or fewer than 24 + 20 = 44 mm are left, and
\* a list item breaks iff the cursor is past 70% or fewer than 10 mm are
\* left.
C20_HeadingFollowingPolicy ==
    lastHeadingLevel > 0 =>
        /\ ParagraphBreaks(lastHeadingLevel, pdf.y)
               <=> (Past(pdf.y, 65) \/ RemainingSpace(pdf.y) < 44 * U)
        /\ ListItemBreaks(lastHeadingLevel, pdf.y)
               <=> (Past(pdf.y, 70) \/ RemainingSpace(pdf.y) < 10 * U)

\* C20 witness: a heading has left the cursor between 65% and 70% of the
\* page height with more than 44 mm left: the paragraph breaks on position
\* alone, the list item does not break.
C20_Witness ==
    /\ op.kind = "heading" /\ lastHeadingLevel > 0
    /\ Past(pdf.y, 65) /\ ~Past(pdf.y, 70)
    /\ RemainingSpace(pdf.y) >= 44 * U
    /\ ParagraphBreaks(lastHeadingLevel, pdf.y)
    /\ ~ListItemBreaks(lastHeadingLevel, pdf.y)

\* C21: a code block, plain or highlighted, calls AddPage before drawing
\* iff fewer than 20 mm are left, whatever the position-fraction of the
\* cursor, lastHeadingLevel and the recorded level-2 position.
C21_CodeBreaksOnSpaceOnly ==
    [][(op'.broke # (RemainingSpace(pdf.y) < 20 * U)) =>
           ~(\/ \E lines \in CodeLineCounts \ {0} : WriteCode(lines)
             \/ \E toks \in TokenSeqs : WriteHighlightedCode(toks))]_vars

\* C21 witness: a code block drawn without a break directly below a heading
\* that left the cursor past 65% of the page height, where a paragraph
\* would have broken.
C21_Witness ==
    /\ variant = "space"
    /\ op.kind = "content" /\ ~op.broke /\ lastHeadingLevel > 0
    /\ pdf.page = 1 /\ Past(pdf.y - 9 * U, 65) /\ pdf.y < 257 * U

\* The newline tokens of a token sequence.
Newlines(toks) == Cardinality({i \in DOMAIN toks : toks[i] = "newline"})

\* Every token is a newline or a text that fits on the current line.
OnlyFitting(toks) == \A i \in DOMAIN toks : toks[i] \in {"newline", "text"}

\* C22 as stated: a highlighted code block whose token stream holds k
\* newline tokens leaves the cursor k lines of 6 mm below where its first
\* token was drawn; the other tokens do not move it down.
C22_NewlinesCountLines ==
    [][block' # block =>
           /\ pdf'.page = block'.from.page
           /\ pdf'.y = block'.from.y + 6 * U * Newlines(block'.toks)]_vars

\* C22 amended: the tokens are drawn in order, the cursor never moving up
\* the page; when every token other than the newline tokens fits on its
\* line and holds no line break, and no automatic page break occurs, the
\* block leaves the cursor exactly k lines of 6 mm below where its first
\* token was drawn, k the number of newline tokens.
C22_FittingTokensCountLines ==
    [][block' # block =>
           /\ pdf'.page >= block'.from.page
           /\ pdf'.page = block'.from.page =>
                  /\ pdf'.y >= block'.from.y + 6 * U * Newlines(block'.toks)
                  /\ OnlyFitting(block'.toks) =>
                         pdf'.y = block'.from.y
                                      + 6 * U * Newlines(block'.toks)]_vars

\* C22 witness: newline, text, newline drawn from the top of page 1 left
\* the cursor two lines down.
C22_Witness ==
    /\ block = [toks |-> <<"newline", "text", "newline">>,
                from |-> [y |-> TopMargin, page |-> 1]]
    /\ pdf = [y |-> TopMargin + 12 * U, page |-> 1]
    /\ op.kind = "content"

\* C23: once saved, the PDF carries the extracted metadata: a non-empty
\* author as the PDF author, a non-empty project as title and as subject,
\* the day the __date__ value names as creation date; an empty field leaves
\* its PDF metadata unset.
C23_MetadataEmbedded ==
    meta.info.saved =>
        /\ meta.info.author = meta.author
        /\ meta.info.title = meta.project
        /\ meta.project # "" => meta.info.subject = <<"Project: ", meta.project>>
        /\ meta.project = "" => meta.info.subject = <<>>
        /\ meta.date # 0 => meta.info.creationDate = meta.date

\* The emitter the claim gives a block: one for a heading, paragraph, code
\* block or list item with text, one for a thematic break.
ClaimEmitter(node) ==
    IF node.kind = "ThematicBreak" THEN <<"WriteThematicBreak">>
    ELSE IF node.text = 0 THEN <<>>
    ELSE IF node.kind = "Heading" THEN <<"WriteHeading">>
    ELSE IF node.kind = "Paragraph" THEN <<"WriteParagraph">>
    ELSE IF node.kind \in {"CodeBlock", "FencedCodeBlock"} THEN <<"WriteCode">>
    ELSE IF node.kind = "ListItem" THEN <<"WriteListItem">>
    ELSE <<>>

\* The emitters the claim expects for a sequence of blocks, in document
\* order.
RECURSIVE ClaimEmitters(_)
ClaimEmitters(nodes) ==
    IF nodes = <<>> THEN <<>>
    ELSE ClaimEmitter(Head(nodes)) \o ClaimEmitters(Head(nodes).kids)
             \o ClaimEmitters(Tail(nodes))

\* C24: when RenderToPDF has walked a document to its end, it has called
\* exactly one emitter for every heading, paragraph, code block and list
\* item with text and for every thematic break, in document order.
C24_OneEmitterPerBlock ==
    (walk.doc # <<>> /\ walk.todo = <<>>)
        => walk.calls = ClaimEmitters(walk.doc)

\* Recorded level-2 positions on either side of every threshold the
\* escalations compare lastLevel2Y with (0, 30%, 40%, 50% of the page
\* height), and the pages a record can name.
RecordedYs ==
    {0, 30 * U, 89 * U, 90 * U, 118 * U, 119 * U, 148 * U, 149 * U,
     200 * U, 277 * U}
RecordedPages == {0, pdf.page - 1, pdf.page}

\* C25: in both variants and at every cursor position, WriteHeading(3)
\* takes the same break/continue decision whatever the recorded level-2
\* position and page: the decision with any record is the decision with
\* no record at all.
C25_Level3DecisionIgnoresRecord ==
    LET unrecorded == HeadingBreaks(variant, 3, pdf.y, 0, 0, pdf.page)
    IN  /\ BreaksNow(3) <=> unrecorded
        /\ \A l2y \in RecordedYs, l2page \in RecordedPages :
               HeadingBreaks(variant, 3, pdf.y, l2y, l2page, pdf.page)
                   <=> unrecorded

\* C25 witness: in the space-first variant a level-2 heading is recorded on
\* the current page past 50% of the page height and a level-3 heading would
\* break: the escalation branch is entered.
C25_Witness ==
    /\ variant = "space"
    /\ Level2OnThisPage /\ Past(lastLevel2Y, 50)
    /\ RemainingSpace(pdf.y) < 60 * U /\ BreaksNow(3)

\* C26: the position-first variant is at least as aggressive as the
\* space-first one: at every cursor position, for every heading level and
\* recorded level-2 state, a page break in the space-first WriteHeading
\* implies one in the position-first WriteHeading.
C26_PositionFirstAtLeastAsAggressive ==
    /\ \A level \in Levels :
           HeadingBreaks("space", level, pdf.y, lastLevel2Y, lastLevel2Page,
                         pdf.page)
               => HeadingBreaks("position", level, pdf.y, lastLevel2Y,
                                lastLevel2Page, pdf.page)
    /\ \A l2y \in RecordedYs :
           HeadingBreaks("space", 3, pdf.y, l2y, pdf.page, pdf.page)
               => HeadingBreaks("position", 3, pdf.y, l2y, pdf.page, pdf.page)

\* C26 witness: a cursor position, reached by the space-first variant,
\* where its WriteHeading breaks at every level.
C26_Witness ==
    /\ variant = "space" /\ op.kind # "none"
    /\ \A level \in Levels :
           HeadingBreaks("space", level, pdf.y, lastLevel2Y, lastLevel2Page,
                         pdf.page)

\* C27: in the position-first variant the recorded level-2 position is
\* never below 40% of the page height plus the 4 mm gap drawn before a
\* heading, so a record past 40% lies in the 4 mm band just above 40%.
C27_Level2RecordedHigh ==
    /\ 100 * lastLevel2Y <= 40 * PageHeight + 100 * 4 * U
    /\ Past(lastLevel2Y, 40) =>
           100 * (lastLevel2Y - 4 * U) <= 40 * PageHeight

\* C27 witness: a level-2 heading drawn without a break and recorded past
\* 40% of the page height.
C27_Witness ==
    /\ variant = "position"
    /\ op.kind = "heading" /\ ~op.broke /\ lastHeadingLevel = 2
    /\ lastLevel2Page = pdf.page /\ Past(lastLevel2Y, 40)

\* C28: no block emitter breaks the page from the top margin, whatever
\* lastHeadingLevel and the recorded level-2 position; an emit that calls
\* AddPage draws its block on the new page, and no emit moves on by more
\* than one page or leaves the cursor at the top margin of a page it
\* opened: every page holds a drawn block.
C28_NoBlankPages ==
    [][/\ pdf'.page <= pdf.page + 1
       /\ pdf'.page # pdf.page => pdf'.y > TopMargin
       /\ (pdf' # pdf /\ op'.broke) => pdf'.page = pdf.page + 1
       /\ pdf.y = TopMargin =>
              /\ pdf'.page = pdf.page
              /\ \A level \in Levels, l2y \in RecordedYs,
                    l2page \in RecordedPages :
                     ~HeadingBreaks(variant, level, pdf.y, l2y, l2page,
                                    pdf.page)
              /\ \A lhl \in 0..MaxLevel :
                     /\ ~ParagraphBreaks(lhl, pdf.y)
                     /\ ~ListItemBreaks(lhl, pdf.y)
              /\ ~CodeBreaks(pdf.y)]_vars

\* C28 witness: a paragraph or list item called AddPage and drew on the
\* page it opened, which follows a page that holds a block.
C28_Witness ==
    /\ op.kind = "content" /\ op.broke /\ lastHeadingLevel = 0
    /\ pdf.page = 2 /\ pdf.y > TopMargin /\ pdf.y <= TopMargin + 22 * U

\* C29: the page number never decreases; lastLevel2Page is at most the
\* current page (0 before any level-2 heading); and while lastLevel2Page is
\* the current page, lastLevel2Y lies between the top margin and the
\* cursor.
C29_Level2RecordBehindCursor ==
    [][/\ pdf'.page >= pdf.page
       /\ lastLevel2Page' <= pdf'.page
       /\ lastLevel2Page' = 0 => lastLevel2Y' = 0
       /\ lastLevel2Page' = pdf'.page =>
              (lastLevel2Y' >= TopMargin /\ lastLevel2Y' <= pdf'.y)]_vars

\* C29 witness: content drawn on page 2 below a level-2 heading that was
\* recorded at the top margin of that page.
C29_Witness ==
    /\ op.kind = "content" /\ ~op.broke
    /\ pdf.page = 2 /\ lastLevel2Page = 2 /\ lastLevel2Y = TopMargin
    /\ pdf.y > TopMargin + 15 * U

\* C30: a heading emit leaves lastHeadingLevel at the emitted level, and a
\* level-2 emit records the position and page at which the heading is
\* drawn: the cursor it found if that was at most 40 mm down, the top
\* margin of the next page if it broke, the cursor it found plus the 4 mm
\* gap otherwise; the 12 mm heading cell and the 3 mm feed start there.
C30_Level2RecordedWhereDrawn ==
    [][(op'.kind = "heading" /\ pdf' # pdf) =>
           \A level \in Levels :
               WriteHeading(level, "h") =>
                   /\ lastHeadingLevel' = level
                   /\ level = 2 =>
                          /\ <<lastLevel2Y', lastLevel2Page'>> =
                                 IF pdf.y <= 40 * U
                                     THEN <<pdf.y, pdf.page>>
                                 ELSE IF pdf'.page # pdf.page
                                     THEN <<TopMargin, pdf.page + 1>>
                                 ELSE <<pdf.y + 4 * U, pdf.page>>
                          /\ pdf' = [y |-> lastLevel2Y' + 12 * U + 3 * U,
                                     page |-> lastLevel2Page']]_vars

\* C30 witness: a level-2 heading drawn without a break more than 40 mm
\* down: the record is 15 mm above the cursor it left, on the same page.
C30_Witness ==
    /\ op.kind = "heading" /\ ~op.broke /\ lastHeadingLevel = 2
    /\ lastLevel2Y > 44 * U
    /\ pdf = [y |-> lastLevel2Y + 15 * U, page |-> lastLevel2Page]

\* The children with text among the first n of a list.
WithText(items, n) == Cardinality({k \in 1..n : items[k] # 0})

\* C31: walking an ordered list that starts at 0, the renderer hands
\* WriteListItem the ordinals 0, 1, 2, ... for the children with text, so
\* the first of them is drawn with the bullet prefix and the following with
\* "1. ", "2. ", ...; in an unordered list every child is handed ordinal 0
\* and drawn with the bullet prefix; a ListItem outside a List is handed
\* '-' and 0 and drawn with the bullet prefix.
C31_ZeroStartAndUnorderedPrefixes ==
    [][/\ (list' # list /\ list.pos <= Len(list.items)
              /\ list.items[list.pos] # 0
              /\ (list.start = 0 \/ ~IsOrdered(list.marker))) =>
              /\ call'.marker = list.marker
              /\ call'.index = IF IsOrdered(list.marker)
                               THEN WithText(list.items, list.pos - 1)
                               ELSE 0
              /\ Len(list'.prefixes) = Len(list.prefixes) + 1
              /\ list'.prefixes[Len(list'.prefixes)] = call'.prefix
              /\ IF call'.index = 0 THEN IsBullet(call'.prefix)
                 ELSE IsNumbered(call'.prefix, call'.index)
       /\ (list' = list /\ call' # call /\ WalkStandaloneItem(1)) =>
              /\ call'.marker = "-" /\ call'.index = 0
              /\ IsBullet(call'.prefix)
       /\ (IsOrdered(list'.marker) /\ list'.start = 0) =>
              \A k \in 1..Len(list'.prefixes) :
                  IF k = 1 THEN IsBullet(list'.prefixes[k])
                  ELSE IsNumbered(list'.prefixes[k], k - 1)
       /\ (list' # NoList /\ ~IsOrdered(list'.marker)) =>
              \A k \in 1..Len(list'.prefixes) :
                  IsBullet(list'.prefixes[k])]_vars

\* C31 witness: three items with marker '.' from 0 drew the bullet prefix,
\* "1. " and "2. ".
C31_Witness ==
    /\ list.marker = "." /\ list.start = 0 /\ list.items = <<1, 1, 1>>
    /\ list.pos = 4
    /\ list.prefixes = << <<"bullet", " ">>, <<"1", ".", " ">>,
                          <<"2", ".", " ">> >>
    /\ call = [marker |-> ".", index |-> 2, prefix |-> <<"2", ".", " ">>]

====
